---- MODULE Spec2Model ----
(***************************************************************************)
(* Model of app/rs/src/lib.rs of twoyi: the JNI entry points init          *)
(* (renderer_init), resetWindow, removeWindow, handleTouch and sendKeycode *)
(* and the process-wide flag RENDERER_STARTED.                             *)
(*                                                                         *)
(* Every init call is a thread of its own (the host may deliver them       *)
(* concurrently).  The statements of renderer_init before the              *)
(* compare_exchange read and write only the call's own locals, so they are *)
(* one step together with the compare_exchange; after it every call into   *)
(* a collaborator (filesystem, input system, renderer, thread and process  *)
(* creation) is a step of its own.  The other four entry points make at    *)
(* most one collaborator call and touch no state of this file, each is one *)
(* step.  fx[t] is the sequence of collaborator calls init call t has      *)
(* made, workers the threads created with thread::spawn, wfx[i] the calls  *)
(* made on worker i, lastOp the most recent call of another entry point    *)
(* with the collaborator calls it made.                                    *)
(*                                                                         *)
(* Floats are carried in tenths (xdpi 4205 is 420.5).  Failure of          *)
(* thread::spawn itself and allocation failure are not modelled.           *)
(***************************************************************************)
EXTENDS Integers, Sequences, FiniteSets, TLC

\* number of init calls the host delivers (each on its own thread)
NCalls == 2

Calls == 1..NCalls

\* ---- input domains ----------------------------------------------------
\* what ANativeWindow_fromSurface yields for a surface: 0 is the null pointer
NullPtr == 0
Windows == {NullPtr, 1, 2}
\* window.width() and window.height() of a resolved window
WindowWidth(win) == IF win = 1 THEN 1080 ELSE 720
WindowHeight(win) == IF win = 1 THEN 1920 ELSE 1280
\* the (width, height) and the (top, left) arguments of resetWindow
Sizes == {<<800, 600>>}
TopLefts == {<<40, 25>>}
\* requested frame rates
FpsValues == {-1, 0, 30, 31}
\* (xdpi, ydpi) in tenths
DpiValues == {<<4205, 3999>>}
\* the loader jstring: "" stands for a reference env.get_string rejects
BadLoader == ""
Loaders == {BadLoader, "/data/app/loader64.so"}
\* key codes
KeyCodes == {-1, 66}
\* a MotionEvent reference: null, or an object backed by the native event ptr
\* (0 or a real AInputEvent); "nofield" is an object on which
\* env.get_field(.., "mNativePtr", "J") fails
Events == {[ref |-> "null", ptr |-> 0], [ref |-> "nofield", ptr |-> 7],
           [ref |-> "obj", ptr |-> 0], [ref |-> "obj", ptr |-> 7]}

\* ---- program constants ------------------------------------------------
FpsCeiling == 30
DevInputPath == "/data/data/io.twoyi/rootfs/dev/input"
WorkingDir == "/data/data/io.twoyi/rootfs"
LogPath == "/data/data/io.twoyi/log.txt"
\* scale 1.0 and rotation 0.0, in tenths
ScaleOne == 10
RotationZero == 0
OffsetZero == 0
RendererNice == -10
GuestNice == "5"

VARIABLES RENDERER_STARTED, pc, local, fx, workers, wfx, lastOp

vars == <<RENDERER_STARTED, pc, local, fx, workers, wfx, lastOp>>

\* ---- pure helpers -----------------------------------------------------
\* a clamp to the range 0..30
SafeFps_floor(fps) == IF fps > 30 THEN 30 ELSE IF fps < 0 THEN 0 ELSE fps

\* let safe_fps = if fps > 30 { 30 } else { fps };
SafeFps(fps) == IF fps > FpsCeiling THEN FpsCeiling ELSE fps

\* `xdpi as i32`: truncation toward zero of a float given in tenths
FloatAsI32(x) == IF x >= 0 THEN x \div 10 ELSE -((-x) \div 10)

\* a store of true that reports success whatever the flag held
CompareExchange_blind(cur) == <<TRUE, TRUE>>

\* an exchange that clears the flag when it finds it set
CompareExchange_toggle(cur) == IF cur = FALSE THEN <<TRUE, TRUE>> ELSE <<FALSE, FALSE>>

\* RENDERER_STARTED.compare_exchange(false, true, ..): <<new value, is_ok>>
CompareExchange(cur) == IF cur = FALSE THEN <<TRUE, TRUE>> ELSE <<cur, FALSE>>

\* std::ptr::NonNull::new(window_ptr)
NonNull(p) == p # NullPtr

\* the locals of an init call; cas_ok is compare_exchange(..).is_ok()
NoLocal == [window |-> NullPtr, width |-> 0, height |-> 0, fps |-> 0,
            safe_fps |-> 0, xdpi |-> 0, ydpi |-> 0, loader |-> BadLoader,
            cas_ok |-> FALSE]

NoOp == [op |-> "none", calls |-> <<>>]

Init ==
    /\ RENDERER_STARTED = FALSE
    /\ pc = [t \in Calls |-> "idle"]
    /\ local = [t \in Calls |-> NoLocal]
    /\ fx = [t \in Calls |-> <<>>]
    /\ workers = <<>>
    /\ wfx = <<>>
    /\ lastOp = NoOp

\* ---- init -------------------------------------------------------------
\* renderer_init with the compare_exchange moved in front of the null check
renderer_init_cas_first(t) ==
    /\ pc[t] = "idle"
    /\ \E win \in Windows :
         LET cas == CompareExchange(RENDERER_STARTED) IN
         /\ RENDERER_STARTED' = cas[1]
         /\ IF ~NonNull(win)
            THEN /\ pc' = [pc EXCEPT ![t] = "aborted"]
                 /\ UNCHANGED local
            ELSE IF cas[2]
                 THEN /\ pc' = [pc EXCEPT ![t] = "permissions"]
                      /\ \E fps \in FpsValues, dpi \in DpiValues, loader \in Loaders :
                           local' = [local EXCEPT ![t] =
                             [window |-> win, width |-> WindowWidth(win),
                              height |-> WindowHeight(win),
                              fps |-> fps, safe_fps |-> SafeFps(fps),
                              xdpi |-> dpi[1], ydpi |-> dpi[2], loader |-> loader,
                              cas_ok |-> TRUE]]
                 ELSE /\ pc' = [pc EXCEPT ![t] = "setNativeWindow"]
                      /\ local' = [local EXCEPT ![t] =
                           [NoLocal EXCEPT !.window = win,
                                           !.width = WindowWidth(win),
                                           !.height = WindowHeight(win)]]
         /\ UNCHANGED <<fx, workers, wfx, lastOp>>

\* renderer_init up to and including the compare_exchange
renderer_init(t) ==
    /\ pc[t] = "idle"
    /\ \E win \in Windows :
         IF ~NonNull(win)
         THEN /\ pc' = [pc EXCEPT ![t] = "aborted"]
              /\ UNCHANGED <<RENDERER_STARTED, local, fx, workers, wfx, lastOp>>
         ELSE LET cas == CompareExchange(RENDERER_STARTED) IN
              /\ RENDERER_STARTED' = cas[1]
              /\ IF cas[2]
                 THEN /\ pc' = [pc EXCEPT ![t] = "permissions"]
                      /\ \E fps \in FpsValues, dpi \in DpiValues, loader \in Loaders :
                           local' = [local EXCEPT ![t] =
                             [window |-> win, width |-> WindowWidth(win),
                              height |-> WindowHeight(win),
                              fps |-> fps, safe_fps |-> SafeFps(fps),
                              xdpi |-> dpi[1], ydpi |-> dpi[2], loader |-> loader,
                              cas_ok |-> TRUE]]
                 ELSE /\ pc' = [pc EXCEPT ![t] = "setNativeWindow"]
                      /\ local' = [local EXCEPT ![t] =
                           [NoLocal EXCEPT !.window = win,
                                           !.width = WindowWidth(win),
                                           !.height = WindowHeight(win)]]
              /\ UNCHANGED <<fx, workers, wfx, lastOp>>

Emit(t, call) == fx' = [fx EXCEPT ![t] = Append(@, call)]

\* the re-registration path
init_setNativeWindow(t) ==
    /\ pc[t] = "setNativeWindow"
    /\ Emit(t, [fn |-> "setNativeWindow", window |-> local[t].window])
    /\ pc' = [pc EXCEPT ![t] = "resetSubWindow"]
    /\ UNCHANGED <<RENDERER_STARTED, local, workers, wfx, lastOp>>

\* resetSubWindow with width and height transposed
ResetSubWindowCall_transposed(win, w, h) ==
    [fn |-> "resetSubWindow", window |-> win, x |-> OffsetZero, y |-> OffsetZero,
     width |-> h, height |-> w, orig_width |-> h, orig_height |-> w,
     scale |-> ScaleOne, rotation |-> RotationZero]

\* renderer_bindings::resetSubWindow(win, 0, 0, w, h, w, h, 1.0, 0.0)
ResetSubWindowCall(win, w, h) ==
    [fn |-> "resetSubWindow", window |-> win, x |-> OffsetZero, y |-> OffsetZero,
     width |-> w, height |-> h, orig_width |-> w, orig_height |-> h,
     scale |-> ScaleOne, rotation |-> RotationZero]

\* the re-registration held back until the render loop is running
init_resetSubWindow_wait(t) ==
    /\ pc[t] = "resetSubWindow"
    /\ \E i \in DOMAIN workers : workers[i].st = "rendering"
    /\ fx' = [fx EXCEPT ![t] = Append(@,
                ResetSubWindowCall(local[t].window, local[t].width, local[t].height))]
    /\ pc' = [pc EXCEPT ![t] = "returned"]
    /\ UNCHANGED <<RENDERER_STARTED, local, workers, wfx, lastOp>>

init_resetSubWindow(t) ==
    /\ pc[t] = "resetSubWindow"
    /\ Emit(t, ResetSubWindowCall(local[t].window, local[t].width, local[t].height))
    /\ pc' = [pc EXCEPT ![t] = "returned"]
    /\ UNCHANGED <<RENDERER_STARTED, local, workers, wfx, lastOp>>

\* ---- init: the full bootstrap path --------------------------------------
\* what fs::read_dir(&dev_input_path) yields: an error, or the entries
DirListings == {"err", "event0"}
ModeAll == 511

\* the permission step followed at once by the dispatch of the worker
init_permissions_then_dispatch(t) ==
    /\ pc[t] = "permissions"
    /\ fx' = [fx EXCEPT ![t] =
                Append(@, [fn |-> "read_dir", path |-> DevInputPath, ok |-> FALSE])]
    /\ pc' = [pc EXCEPT ![t] = "thread_spawn"]
    /\ UNCHANGED <<RENDERER_STARTED, local, workers, wfx, lastOp>>

\* fs::read_dir and, for every entry, fs::set_permissions(.., 0o777); its
\* result, Ok or Err, is dropped by `let _ =` and so is no part of the state
init_permissions(t) ==
    /\ pc[t] = "permissions"
    /\ \E dir \in DirListings :
         LET rd == [fn |-> "read_dir", path |-> DevInputPath, ok |-> dir # "err"]
             sp == [fn |-> "set_permissions", path |-> DevInputPath, entry |-> dir,
                    mode |-> ModeAll]
         IN  fx' = [fx EXCEPT ![t] =
                      IF dir = "err" THEN Append(@, rd) ELSE @ \o <<rd, sp>>]
    /\ pc' = [pc EXCEPT ![t] = "start_input_system"]
    /\ UNCHANGED <<RENDERER_STARTED, local, workers, wfx, lastOp>>

\* input::start_input_system(width, height)
init_start_input_system(t) ==
    /\ pc[t] = "start_input_system"
    /\ Emit(t, [fn |-> "start_input_system", width |-> local[t].width,
                height |-> local[t].height])
    /\ pc' = [pc EXCEPT ![t] = "thread_spawn"]
    /\ UNCHANGED <<RENDERER_STARTED, local, workers, wfx, lastOp>>

\* thread::spawn(move || ..): the closure takes window, width, height, xdpi,
\* ydpi and safe_fps by value
init_thread_spawn(t) ==
    /\ pc[t] = "thread_spawn"
    /\ workers' = Append(workers,
         [st |-> "spawned", window |-> local[t].window, width |-> local[t].width,
          height |-> local[t].height, xdpi |-> local[t].xdpi,
          ydpi |-> local[t].ydpi, safe_fps |-> local[t].safe_fps])
    /\ wfx' = Append(wfx, <<>>)
    /\ Emit(t, [fn |-> "thread::spawn", worker |-> Len(workers) + 1])
    /\ pc' = [pc EXCEPT ![t] = "get_string"]
    /\ UNCHANGED <<RENDERER_STARTED, local, lastOp>>

\* the body of the closure, on the worker thread: setpriority, whose result is
\* never read, then startOpenGLRenderer, which is the render loop
worker_run(i) ==
    /\ i \in 1..Len(workers)
    /\ workers[i].st = "spawned"
    /\ wfx' = [wfx EXCEPT ![i] = @ \o
                  << [fn |-> "setpriority", prio |-> RendererNice],
                     [fn |-> "startOpenGLRenderer", window |-> workers[i].window,
                      width |-> workers[i].width, height |-> workers[i].height,
                      xdpi |-> FloatAsI32(workers[i].xdpi),
                      ydpi |-> FloatAsI32(workers[i].ydpi),
                      fps |-> workers[i].safe_fps] >>]
    /\ workers' = [workers EXCEPT ![i].st = "rendering"]
    /\ UNCHANGED <<RENDERER_STARTED, pc, local, fx, lastOp>>

\* env.get_string(&loader_jstr).unwrap()
init_get_string(t) ==
    /\ pc[t] = "get_string"
    /\ LET ok == local[t].loader # BadLoader IN
         /\ Emit(t, [fn |-> "get_string", ok |-> ok])
         /\ pc' = [pc EXCEPT ![t] = IF ok THEN "File::create" ELSE "panicked"]
    /\ UNCHANGED <<RENDERER_STARTED, local, workers, wfx, lastOp>>

\* File::create(log_path).unwrap() in place of the if let
init_File_create_unwrap(t) ==
    /\ pc[t] = "File::create"
    /\ \E ok \in BOOLEAN :
         /\ fx' = [fx EXCEPT ![t] =
                     Append(@, [fn |-> "File::create", path |-> LogPath, ok |-> ok])]
         /\ pc' = [pc EXCEPT ![t] = IF ok THEN "try_clone" ELSE "panicked"]
    /\ UNCHANGED <<RENDERER_STARTED, local, workers, wfx, lastOp>>

\* if let Ok(outputs) = File::create(log_path)
init_File_create(t) ==
    /\ pc[t] = "File::create"
    /\ \E ok \in BOOLEAN :
         /\ Emit(t, [fn |-> "File::create", path |-> LogPath, ok |-> ok])
         /\ pc' = [pc EXCEPT ![t] = IF ok THEN "try_clone" ELSE "returned"]
    /\ UNCHANGED <<RENDERER_STARTED, local, workers, wfx, lastOp>>

\* let errors = outputs.try_clone().unwrap();
init_try_clone(t) ==
    /\ pc[t] = "try_clone"
    /\ \E ok \in BOOLEAN :
         /\ Emit(t, [fn |-> "try_clone", path |-> LogPath, ok |-> ok])
         /\ pc' = [pc EXCEPT ![t] = IF ok THEN "Command::spawn" ELSE "panicked"]
    /\ UNCHANGED <<RENDERER_STARTED, local, workers, wfx, lastOp>>

\* the spawn with the device directory as working directory
init_Command_spawn_devdir(t) ==
    /\ pc[t] = "Command::spawn"
    /\ \E ok \in BOOLEAN :
         fx' = [fx EXCEPT ![t] = Append(@,
                 [fn |-> "Command::spawn", program |-> "nice",
                  args |-> <<"-n", GuestNice, "./init">>,
                  current_dir |-> DevInputPath, env_key |-> "TYLOADER",
                  env_val |-> local[t].loader, stdout |-> LogPath,
                  stderr |-> LogPath, ok |-> ok])]
    /\ pc' = [pc EXCEPT ![t] = "returned"]
    /\ UNCHANGED <<RENDERER_STARTED, local, workers, wfx, lastOp>>

\* let _ = Command::new("nice").arg("-n").arg("5").arg("./init")
\*            .current_dir(..).env("TYLOADER", ..).stdout(..).stderr(..).spawn();
init_Command_spawn(t) ==
    /\ pc[t] = "Command::spawn"
    /\ \E ok \in BOOLEAN :
         Emit(t, [fn |-> "Command::spawn", program |-> "nice",
                  args |-> <<"-n", GuestNice, "./init">>,
                  current_dir |-> WorkingDir, env_key |-> "TYLOADER",
                  env_val |-> local[t].loader, stdout |-> LogPath,
                  stderr |-> LogPath, ok |-> ok])
    /\ pc' = [pc EXCEPT ![t] = "returned"]
    /\ UNCHANGED <<RENDERER_STARTED, local, workers, wfx, lastOp>>

\* ---- the other entry points -------------------------------------------
\* resetWindow that resizes only once the renderer has been started
renderer_reset_window_started ==
    /\ RENDERER_STARTED
    /\ \E win \in Windows, sz \in Sizes, tl \in TopLefts :
         lastOp' = [op |-> "resetWindow",
                    in |-> [window |-> win, top |-> tl[1], left |-> tl[2],
                            width |-> sz[1], height |-> sz[2]],
                    calls |-> <<ResetSubWindowCall(win, sz[1], sz[2])>>]
    /\ UNCHANGED <<RENDERER_STARTED, pc, local, fx, workers, wfx>>

\* resetWindow: the window pointer is passed on as it is resolved; _top and
\* _left are not used
renderer_reset_window ==
    /\ \E win \in Windows, sz \in Sizes, tl \in TopLefts :
         lastOp' = [op |-> "resetWindow",
                    in |-> [window |-> win, top |-> tl[1], left |-> tl[2],
                            width |-> sz[1], height |-> sz[2]],
                    calls |-> <<ResetSubWindowCall(win, sz[1], sz[2])>>]
    /\ UNCHANGED <<RENDERER_STARTED, pc, local, fx, workers, wfx>>

\* removeWindow that also marks the renderer as stopped
renderer_remove_window_teardown ==
    /\ \E win \in Windows :
         lastOp' = [op |-> "removeWindow", in |-> [window |-> win],
                    calls |-> <<[fn |-> "removeSubWindow", window |-> win]>>]
    /\ RENDERER_STARTED' = FALSE
    /\ UNCHANGED <<pc, local, fx, workers, wfx>>

\* removeWindow
renderer_remove_window ==
    /\ \E win \in Windows :
         lastOp' = [op |-> "removeWindow", in |-> [window |-> win],
                    calls |-> <<[fn |-> "removeSubWindow", window |-> win]>>]
    /\ UNCHANGED <<RENDERER_STARTED, pc, local, fx, workers, wfx>>

\* the body of handle_touch without the NonNull test
TouchCalls_unchecked(event) ==
    IF event.ref = "null" THEN <<>>
    ELSE IF event.ref = "nofield" THEN <<>>
    ELSE <<[fn |-> "input::handle_touch", event |-> event.ptr]>>

\* the body of handle_touch: the calls into the input module it makes
TouchCalls(event) ==
    IF event.ref = "null" THEN <<>>                \* event.is_null()
    ELSE IF event.ref = "nofield" THEN <<>>        \* get_field(..) is Err
    ELSE IF ~NonNull(event.ptr) THEN <<>>          \* NonNull::new(..) is None
    ELSE <<[fn |-> "input::handle_touch", event |-> event.ptr]>>

\* handleTouch
handle_touch ==
    /\ \E event \in Events :
         lastOp' = [op |-> "handleTouch", in |-> event, calls |-> TouchCalls(event)]
    /\ UNCHANGED <<RENDERER_STARTED, pc, local, fx, workers, wfx>>

\* sendKeycode that forwards only key codes from 0 up
send_key_code_nonneg ==
    /\ \E keycode \in KeyCodes :
         lastOp' = [op |-> "sendKeycode", in |-> [keycode |-> keycode],
                    calls |-> IF keycode >= 0
                              THEN <<[fn |-> "input::send_key_code",
                                      keycode |-> keycode]>>
                              ELSE <<>>]
    /\ UNCHANGED <<RENDERER_STARTED, pc, local, fx, workers, wfx>>

\* sendKeycode
send_key_code ==
    /\ \E keycode \in KeyCodes :
         lastOp' = [op |-> "sendKeycode", in |-> [keycode |-> keycode],
                    calls |-> <<[fn |-> "input::send_key_code",
                                 keycode |-> keycode]>>]
    /\ UNCHANGED <<RENDERER_STARTED, pc, local, fx, workers, wfx>>

Next ==
    \/ \E t \in Calls : renderer_init(t)
    \/ \E t \in Calls : init_setNativeWindow(t)
    \/ \E t \in Calls : init_resetSubWindow(t)
    \/ \E t \in Calls : init_permissions(t)
    \/ \E t \in Calls : init_start_input_system(t)
    \/ \E t \in Calls : init_thread_spawn(t)
    \/ \E i \in 1..NCalls : worker_run(i)
    \/ \E t \in Calls : init_get_string(t)
    \/ \E t \in Calls : init_File_create(t)
    \/ \E t \in Calls : init_try_clone(t)
    \/ \E t \in Calls : init_Command_spawn(t)
    \/ renderer_reset_window
    \/ renderer_remove_window
    \/ handle_touch
    \/ send_key_code

Spec == Init /\ [][Next]_vars

\* ---- vocabulary of the properties -------------------------------------
Finished(t) == pc[t] \in {"returned", "aborted", "panicked"}
AllFinished == \A t \in Calls : Finished(t)

\* the call resolved a window and reached the compare_exchange
Resolved(t) == pc[t] \notin {"idle", "aborted"}
\* the call's compare_exchange succeeded / failed
Winner(t) == Resolved(t) /\ local[t].cas_ok
Loser(t) == Resolved(t) /\ ~local[t].cas_ok

PermissionFns == {"read_dir", "set_permissions"}
InputInitFns == {"start_input_system"}
DispatchFns == {"thread::spawn"}
LaunchFns == {"get_string", "File::create", "try_clone", "Command::spawn"}
BootstrapFns == PermissionFns \cup InputInitFns \cup DispatchFns \cup LaunchFns
ReregisterFns == {"setNativeWindow", "resetSubWindow"}

\* the positions of fx[t] that hold a call of one of the functions fns
At(t, fns) == {i \in DOMAIN fx[t] : fx[t][i].fn \in fns}
\* the (call, position) pairs, over all init calls, of calls of fns
AllAt(fns) == UNION {{<<t, i>> : i \in At(t, fns)} : t \in Calls}
Issued(fns) == Cardinality(AllAt(fns))

\* the re-registration of window win, as the renderer sees it
Reregistration(win) ==
    << [fn |-> "setNativeWindow", window |-> win],
       [fn |-> "resetSubWindow", window |-> win, x |-> 0, y |-> 0,
        width |-> WindowWidth(win), height |-> WindowHeight(win),
        orig_width |-> WindowWidth(win), orig_height |-> WindowHeight(win),
        scale |-> 10, rotation |-> 0] >>

\* ---- C1 -----------------------------------------------------------------
\* C1 as stated: once all N concurrent init calls have ended, exactly one of
\* them took the full bootstrap path and each of the other N-1 took the
\* re-registration path.
C1_AsStated ==
    AllFinished =>
        /\ Cardinality({t \in Calls : At(t, BootstrapFns) # {}}) = 1
        /\ Cardinality({t \in Calls : At(t, BootstrapFns) = {}
                                      /\ At(t, {"resetSubWindow"}) # {}}) = NCalls - 1

\* C1, amended: among N concurrent init calls, the calls whose native window
\* resolves to null take neither path; of the others, in every interleaving,
\* exactly one wins the transition and is the only call to run bootstrap steps
\* (permission normalization, input init and worker dispatch once each, then
\* the container launch), and every other one runs the re-registration path
\* and nothing else.
C1_ExactlyOneBootstrap ==
    /\ Cardinality({t \in Calls : Winner(t)}) <= 1
    /\ \A t \in Calls : ~Winner(t) => At(t, BootstrapFns) = {}
    /\ \A t \in Calls : ~Loser(t) => At(t, ReregisterFns) = {}
    /\ \A t \in Calls : pc[t] = "aborted" => fx[t] = <<>>
    /\ AllFinished /\ (\E t \in Calls : Resolved(t)) =>
         \E w \in Calls :
            /\ Winner(w)
            /\ Cardinality(At(w, {"read_dir"})) = 1
            /\ Cardinality(At(w, InputInitFns)) = 1
            /\ Cardinality(At(w, DispatchFns)) = 1
            /\ Cardinality(At(w, {"get_string"})) = 1
            /\ \A t \in Calls \ {w} :
                 Resolved(t) => /\ Loser(t)
                                /\ Cardinality(At(t, {"resetSubWindow"})) = 1
                                /\ Cardinality(At(t, {"setNativeWindow"})) = 1
                                /\ Len(fx[t]) = 2

\* all calls have ended, one after the full bootstrap with the guest spawned,
\* another after a re-registration
C1_Witness ==
    /\ AllFinished
    /\ \E w \in Calls : /\ Winner(w) /\ pc[w] = "returned"
                        /\ At(w, {"Command::spawn"}) # {}
    /\ \E t \in Calls : Loser(t) /\ pc[t] = "returned"

\* ---- C2 -----------------------------------------------------------------
EachStepAtMostOnce ==
    /\ Issued({"read_dir"}) <= 1
    /\ Issued(InputInitFns) <= 1
    /\ Issued(DispatchFns) <= 1 /\ Len(workers) <= 1
    /\ \A f \in LaunchFns : Issued({f}) <= 1

\* C2: whatever init, resetWindow, removeWindow, handleTouch and sendKeycode
\* calls have been made, each bootstrap step (permission normalization, input
\* init, render-worker spawn, container launch) has run at most once, and no
\* step sets RENDERER_STARTED back from true to false.
C2_BootstrapAtMostOnce ==
    /\ []EachStepAtMostOnce
    /\ [][RENDERER_STARTED => RENDERER_STARTED']_vars

\* the bootstrap has run through, a later init call has re-registered and a
\* resetWindow call was the last of the other entry points
C2_Witness ==
    /\ RENDERER_STARTED
    /\ Issued({"read_dir"}) = 1 /\ Issued(InputInitFns) = 1
    /\ Issued(DispatchFns) = 1 /\ Issued({"Command::spawn"}) = 1
    /\ \E t \in Calls : Loser(t) /\ pc[t] = "returned"
    /\ lastOp.op = "resetWindow"

\* ---- C3 -----------------------------------------------------------------
InputBridgeInitialized == Issued(InputInitFns) > 0
ContainerLauncherStarted == Issued(LaunchFns) > 0

\* C3: an init call whose compare_exchange failed runs its re-registration
\* with the Input Bridge initialized and the Container Launcher started.
C3_LoserSeesBootstrapped ==
    \A t \in Calls :
       Loser(t) /\ At(t, ReregisterFns) # {} =>
          InputBridgeInitialized /\ ContainerLauncherStarted

\* ---- C4 -----------------------------------------------------------------
\* C4: the step of an init call whose window resolves to null changes nothing
\* but that call's position: the flag keeps its value (a flag that was false is
\* still false for the next call) and no collaborator is called.
C4_NullResolutionIsolated ==
    [][\A t \in Calls :
         (pc[t] = "idle" /\ pc'[t] = "aborted") =>
            /\ UNCHANGED <<RENDERER_STARTED, local, fx, workers, wfx, lastOp>>
            /\ \A u \in Calls \ {t} : pc'[u] = pc[u]]_vars

\* one init call was aborted on a null window and another has run the full
\* bootstrap up to the spawn of the guest
C4_Witness ==
    /\ \E t \in Calls : pc[t] = "aborted" /\ fx[t] = <<>>
    /\ \E w \in Calls : Winner(w) /\ At(w, {"Command::spawn"}) # {}

\* ---- C5 -----------------------------------------------------------------
RendererFns == {"setNativeWindow", "resetSubWindow", "removeSubWindow",
                "startOpenGLRenderer"}
NullFree(calls) ==
    \A i \in DOMAIN calls : calls[i].fn \in RendererFns => calls[i].window # NullPtr

\* C5: no renderer operation is ever invoked with a null native window, by
\* init, by the worker, by resetWindow or by removeWindow.
C5_NoNullWindowDownstream ==
    /\ \A t \in Calls : NullFree(fx[t])
    /\ \A i \in DOMAIN wfx : NullFree(wfx[i])
    /\ NullFree(lastOp.calls)

\* ---- C6 -----------------------------------------------------------------
\* C6: no init call ends abnormally.
C6_NoPanic == \A t \in Calls : pc[t] # "panicked"

\* ---- C7 -----------------------------------------------------------------
LogCreationFailed(t) ==
    \E i \in At(t, {"File::create"}) : ~fx[t][i].ok

\* C7: an init call whose File::create failed has dispatched the render worker
\* before (the worker holds the call's window, size and clamped frame rate),
\* has spawned no process and has returned normally.
C7_LogFailureKeepsRenderer ==
    \A t \in Calls :
       LogCreationFailed(t) =>
          /\ pc[t] = "returned"
          /\ At(t, {"Command::spawn", "try_clone"}) = {}
          /\ \E j \in At(t, DispatchFns) :
               /\ \A i \in At(t, {"File::create"}) : j < i
               /\ fx[t][j].worker \in DOMAIN workers
               /\ workers[fx[t][j].worker].st \in {"spawned", "rendering"}
               /\ workers[fx[t][j].worker].window = local[t].window

\* the log file could not be created and the render loop is running
C7_Witness ==
    \E t \in Calls :
       /\ LogCreationFailed(t)
       /\ \E i \in DOMAIN workers : workers[i].st = "rendering"

\* ---- C8 -----------------------------------------------------------------
\* C8 as stated: every init call made once the bootstrapping call has taken
\* the flag goes on to register a sub-window.
C8_AsStated ==
    [][\A t \in Calls :
         (RENDERER_STARTED /\ pc[t] = "idle" /\ pc'[t] # "idle") =>
            pc'[t] = "setNativeWindow"]_vars

\* C8, amended: after the bootstrapping init call, the M further init calls
\* whose window resolves non-null issue exactly M resetSubWindow calls, one
\* each, with that call's window, offset (0,0), the window's width and height
\* as size and original size, scale 1.0 and rotation 0.0, and no permission,
\* input-init or launch call; a further call whose window resolves to null
\* issues nothing.
C8_Reregistration ==
    /\ \A t \in Calls :
         Loser(t) /\ pc[t] = "returned" =>
            /\ local[t].window # NullPtr
            /\ fx[t] = Reregistration(local[t].window)
    /\ \A t \in Calls :
         Loser(t) => /\ At(t, BootstrapFns) = {}
                     /\ \A i \in DOMAIN fx[t] :
                          fx[t][i] = Reregistration(local[t].window)[i]
    /\ Issued({"resetSubWindow"}) =
          Cardinality({t \in Calls : Loser(t) /\ pc[t] = "returned"})
    /\ \A t \in Calls : pc[t] = "aborted" => fx[t] = <<>>

\* a further init call has re-registered a window other than the one the
\* bootstrap was given
C8_Witness ==
    \E w, t \in Calls :
       /\ Winner(w) /\ Loser(t) /\ pc[t] = "returned"
       /\ local[t].window # local[w].window
       /\ Len(fx[t]) = 2

\* ---- C9 -----------------------------------------------------------------
\* the startOpenGLRenderer calls made on the worker that call t dispatched
RenderLoopStarts(t) ==
    {c \in UNION {{wfx[fx[t][j].worker][k] : k \in DOMAIN wfx[fx[t][j].worker]}
                   : j \in At(t, DispatchFns)} : c.fn = "startOpenGLRenderer"}

\* C9: the frame rate the render loop is started with is 30 when the init call
\* asked for more than 30 and the requested value itself otherwise, zero and
\* negative values included.
C9_FrameRateClamp ==
    \A t \in Calls : \A c \in RenderLoopStarts(t) :
       /\ local[t].fps > 30 => c.fps = 30
       /\ local[t].fps <= 30 => c.fps = local[t].fps

\* the render loop was started for a call that asked for more than 30
C9_Witness ==
    \E t \in Calls : local[t].fps > 30 /\ RenderLoopStarts(t) # {}

\* ---- C10 ----------------------------------------------------------------
\* C10: every bootstrap step carries the parameters of the call that won the
\* transition: input init its window's width and height, the render loop its
\* window, width, height and clamped frame rate, the one process spawn its
\* loader path in TYLOADER and the guest root as working directory.
C10_WinnerParameters ==
    /\ \A t \in Calls : \A i \in At(t, InputInitFns) :
          /\ Winner(t)
          /\ fx[t][i].width = WindowWidth(local[t].window)
          /\ fx[t][i].height = WindowHeight(local[t].window)
    /\ \A t \in Calls : \A c \in RenderLoopStarts(t) :
          /\ Winner(t)
          /\ c.window = local[t].window
          /\ c.width = WindowWidth(local[t].window)
          /\ c.height = WindowHeight(local[t].window)
          /\ c.fps = IF local[t].fps > 30 THEN 30 ELSE local[t].fps
    /\ \A t \in Calls : \A i \in At(t, {"Command::spawn"}) :
          /\ Winner(t)
          /\ fx[t][i].env_key = "TYLOADER"
          /\ fx[t][i].env_val = local[t].loader
          /\ fx[t][i].env_val # BadLoader
          /\ fx[t][i].current_dir = "/data/data/io.twoyi/rootfs"
    /\ Issued({"Command::spawn"}) <= 1
    /\ \A i \in DOMAIN wfx : Len(wfx[i]) <= 2

\* the bootstrap has spawned the guest and started the render loop while
\* another init call came with a different window
C10_Witness ==
    \E w, t \in Calls :
       /\ Winner(w) /\ At(w, {"Command::spawn"}) # {} /\ RenderLoopStarts(w) # {}
       /\ Loser(t) /\ local[t].window # local[w].window

\* ---- C11 ----------------------------------------------------------------
\* C11 as stated: a handleTouch call makes no call into the Input Bridge when
\* the event handle is null or its backing native pointer is null, and exactly
\* one input::handle_touch call with that event otherwise.
C11_AsStated ==
    lastOp.op = "handleTouch" =>
       IF lastOp.in.ref = "null" \/ lastOp.in.ptr = 0
       THEN lastOp.calls = <<>>
       ELSE /\ Len(lastOp.calls) = 1
            /\ lastOp.calls[1].fn = "input::handle_touch"
            /\ lastOp.calls[1].event = lastOp.in.ptr

\* C11, amended: a handleTouch call makes no call into the Input Bridge when
\* the event handle is null, when the event's mNativePtr field cannot be read,
\* or when the native pointer read from it is null, and exactly one
\* input::handle_touch call with that event otherwise.
C11_TouchForwarding ==
    lastOp.op = "handleTouch" =>
       IF lastOp.in.ref = "null" \/ lastOp.in.ref = "nofield" \/ lastOp.in.ptr = 0
       THEN lastOp.calls = <<>>
       ELSE /\ Len(lastOp.calls) = 1
            /\ lastOp.calls[1].fn = "input::handle_touch"
            /\ lastOp.calls[1].event = lastOp.in.ptr

\* a touch on an object whose native pointer is null was dropped
C11_Witness ==
    /\ lastOp.op = "handleTouch"
    /\ lastOp.in.ref = "obj" /\ lastOp.in.ptr = 0
    /\ lastOp.calls = <<>>

\* ---- C12 ----------------------------------------------------------------
\* C12: in every state, started or not, resetWindow and removeWindow can be
\* called; a resetWindow call makes exactly one resetSubWindow call, at offset
\* (0,0), with the call's width and height as size and as original size, scale
\* 1.0 and rotation 0.0, and a removeWindow call makes exactly one
\* removeSubWindow call, whatever window the surface resolves to.
C12_ResetRemoveUnconditional ==
    /\ ENABLED renderer_reset_window
    /\ ENABLED renderer_remove_window
    /\ lastOp.op = "resetWindow" =>
          lastOp.calls =
             << [fn |-> "resetSubWindow", window |-> lastOp.in.window,
                 x |-> 0, y |-> 0,
                 width |-> lastOp.in.width, height |-> lastOp.in.height,
                 orig_width |-> lastOp.in.width, orig_height |-> lastOp.in.height,
                 scale |-> 10, rotation |-> 0] >>
    /\ lastOp.op = "removeWindow" =>
          lastOp.calls = << [fn |-> "removeSubWindow", window |-> lastOp.in.window] >>

\* a resetWindow call before any bootstrap, for a window no init call has
\* brought
C12_Witness ==
    /\ lastOp.op = "resetWindow"
    /\ lastOp.in.window # NullPtr
    /\ ~RENDERER_STARTED
    /\ \A t \in Calls : local[t].window # lastOp.in.window

\* ---- C13 ----------------------------------------------------------------
\* C13: in every state sendKeycode can be called, and a sendKeycode call makes
\* exactly one input::send_key_code call, with the code it was given.
C13_KeycodeForwarded ==
    /\ ENABLED send_key_code
    /\ lastOp.op = "sendKeycode" =>
          lastOp.calls = << [fn |-> "input::send_key_code",
                             keycode |-> lastOp.in.keycode] >>

\* a negative key code was forwarded before the input system was started
C13_Witness ==
    /\ lastOp.op = "sendKeycode"
    /\ lastOp.in.keycode < 0
    /\ Len(lastOp.calls) = 1
    /\ ~InputBridgeInitialized

\* ---- C14 ----------------------------------------------------------------
\* every call of fns1 that init call t made came before every call of fns2 it
\* made, and it made none of fns2 without one of fns1
Before(t, fns1, fns2) ==
    /\ \A i \in At(t, fns1), j \in At(t, fns2) : i < j
    /\ At(t, fns2) # {} => At(t, fns1) # {}

\* C14: an init call makes its bootstrap calls in the order permission
\* normalization, input init, worker dispatch, container launch; the render
\* loop is started only after input init, and the process is spawned only
\* after the worker was dispatched.
C14_BootstrapOrder ==
    \A t \in Calls :
       /\ Before(t, PermissionFns, InputInitFns)
       /\ Before(t, InputInitFns, DispatchFns)
       /\ Before(t, DispatchFns, LaunchFns)
       /\ Before(t, PermissionFns, DispatchFns \cup LaunchFns)
       /\ Before(t, InputInitFns, LaunchFns)
       /\ RenderLoopStarts(t) # {} => At(t, InputInitFns) # {}
       /\ \A i \in At(t, {"Command::spawn"}) : \E j \in At(t, DispatchFns) : j < i

\* the bootstrap has gone through all four steps and the render loop runs
C14_Witness ==
    \E t \in Calls :
       /\ At(t, PermissionFns) # {} /\ At(t, InputInitFns) # {}
       /\ At(t, DispatchFns) # {} /\ At(t, {"Command::spawn"}) # {}
       /\ RenderLoopStarts(t) # {}

\* ---- C15 ----------------------------------------------------------------
\* the next step of init call t, whichever it is
InitStep(t) ==
    \/ init_setNativeWindow(t) \/ init_resetSubWindow(t)
    \/ init_permissions(t) \/ init_start_input_system(t) \/ init_thread_spawn(t)
    \/ init_get_string(t) \/ init_File_create(t) \/ init_try_clone(t)
    \/ init_Command_spawn(t)

RenderLoopFns == {"startOpenGLRenderer"}

\* C15: startOpenGLRenderer is called at most once, on a spawned worker and
\* never on the thread of an init call, and the bootstrapping init call,
\* whatever the worker does, either has returned to the host or can take its
\* next step.
C15_RenderLoopOnWorker ==
    /\ Cardinality(UNION {{<<i, k>> : k \in {n \in DOMAIN wfx[i] :
                                               wfx[i][n].fn \in RenderLoopFns}}
                           : i \in DOMAIN wfx}) <= 1
    /\ \A t \in Calls : At(t, RenderLoopFns) = {}
    /\ \A t \in Calls : Winner(t) => pc[t] = "returned" \/ ENABLED InitStep(t)

\* ---- C16 ----------------------------------------------------------------
\* C16: an init call whose compare_exchange failed is never held up: in every
\* state, wherever the winner and the worker are, it has returned after its
\* two renderer calls or can take its next step.
C16_LoserNeverWaits ==
    \A t \in Calls :
       Loser(t) =>
          \/ pc[t] = "returned" /\ fx[t] = Reregistration(local[t].window)
          \/ pc[t] # "returned"
             /\ ENABLED (init_setNativeWindow(t) \/ init_resetSubWindow(t))

\* a losing call has returned while the winner has not gone beyond its
\* compare_exchange and no worker exists
C16_Witness ==
    \E w, t \in Calls :
       /\ Winner(w) /\ pc[w] = "permissions" /\ fx[w] = <<>>
       /\ Loser(t) /\ pc[t] = "returned"
       /\ workers = <<>>

\* ---- C17 ----------------------------------------------------------------
\* C17: a step of resetWindow, removeWindow, handleTouch or sendKeycode (a step
\* that changes lastOp) leaves RENDERER_STARTED, every init call and every
\* worker as they are, and the calls it makes are no bootstrap calls.
C17_OtherEntryPointsFrame ==
    /\ [][lastOp' # lastOp =>
            UNCHANGED <<RENDERER_STARTED, pc, local, fx, workers, wfx>>]_vars
    /\ [](\A i \in DOMAIN lastOp.calls :
             lastOp.calls[i].fn \notin BootstrapFns \cup RenderLoopFns)

\* a removeWindow call made while the bootstrap is between input init and the
\* dispatch of the worker
C17_Witness ==
    /\ lastOp.op = "removeWindow"
    /\ RENDERER_STARTED
    /\ \E t \in Calls : Winner(t) /\ pc[t] = "thread_spawn"
====
